---- MODULE Spec2Model ----
(***************************************************************************)
(* A model of the retrieval pipeline of the RAG demo:                      *)
(*   - EmbeddingStore (embeddings.py): add_chunks, search, save, load      *)
(*   - chunk_text (pdf_processor.py)                                       *)
(* Sequence positions are 1-based here where Python's are 0-based.         *)
(***************************************************************************)
EXTENDS Integers, Sequences, FiniteSets, TLC

\* ------------------------------------------------------------------------
\* Bounds
\* ------------------------------------------------------------------------
MaxChunks == 2       \* longest argument of add_chunks

\* the texts of chunks and queries: two texts with orthogonal vectors
Texts == {1, 2}

\* the top_k arguments tried: 0 up to one more than the largest corpus
TopKs == 0..(MaxChunks + 1)

\* ------------------------------------------------------------------------
\* Values
\* ------------------------------------------------------------------------
\* Optional values are sequences of length 0 or 1: None is <<>> and an
\* embedding matrix E is held as Some(E) = <<E>>, so that the empty matrix
\* Some(<<>>) differs from None.
None == <<>>
Some(x) == <<x>>
Rows(e) == e[1]
\* no file at the path (a blob is never empty)
NoFile == <<>>

\* a chunk as process_pdfs builds it: {'source', 'chunk_id', 'text'}
MkChunks(ts) ==
  [i \in 1..Len(ts) |-> [source |-> "doc.pdf", chunk_id |-> i - 1, text |-> ts[i]]]

RECURSIVE SeqsUpTo(_, _)
SeqsUpTo(S, n) ==
  IF n = 0 THEN {<<>>}
  ELSE LET shorter == SeqsUpTo(S, n - 1)
       IN  shorter \cup {Append(s, x) : s \in {t \in shorter : Len(t) = n - 1}, x \in S}

ChunkLists == {MkChunks(ts) : ts \in SeqsUpTo(Texts, MaxChunks)}

\* ------------------------------------------------------------------------
\* The embedding model: a fixed, deterministic text -> vector map.
\* Vectors have two components.
\* ------------------------------------------------------------------------
encode_one(t) == <<t % 2, (t \div 2) % 2>>

\* self.model.encode(texts): one row per text, in order
encode(texts) == [i \in 1..Len(texts) |-> encode_one(texts[i])]

\* texts = [chunk['text'] for chunk in chunks]
texts_of(cs) == [i \in 1..Len(cs) |-> cs[i].text]

Min(a, b) == IF a <= b THEN a ELSE b

Dot(a, b) == a[1] * b[1] + a[2] * b[2]
Sgn(x) == IF x > 0 THEN 1 ELSE IF x < 0 THEN -1 ELSE 0

\* cosine similarity dot(a,b) / (|a| |b|), 0 when a norm is 0, kept exact as
\* the signed square <<sgn(dot) * dot^2, |a|^2 |b|^2>> (a fraction num/den).
cosine(a, b) ==
  LET den == Dot(a, a) * Dot(b, b)
      d   == Dot(a, b)
  IN  IF den = 0 THEN <<0, 1>> ELSE <<Sgn(d) * d * d, den>>

SimLE(x, y) == x[1] * y[2] <= y[1] * x[2]
SimEq(x, y) == x[1] * y[2] = y[1] * x[2]
SimLT(x, y) == x[1] * y[2] < y[1] * x[2]

\* cosine_similarity(query_embedding, self.embeddings)[0]
cosine_similarity(q, emb) == [i \in 1..Len(emb) |-> cosine(q, emb[i])]

\* ------------------------------------------------------------------------
\* numpy helpers used by search
\* ------------------------------------------------------------------------
Perms(n) == {p \in [1..n -> 1..n] : \A i, j \in 1..n : i # j => p[i] # p[j]}

\* np.argsort(similarities): the index orders that sort ascending.  The
\* default sort kind is not stable, so equal values may come in any order.
argsort(sims) ==
  {p \in Perms(Len(sims)) :
      \A i \in 1..(Len(sims) - 1) : SimLE(sims[p[i]], sims[p[i + 1]])}

\* s[-k:] for k >= 0: the last k elements; -0 is 0, so s[-0:] is all of s
SliceLast(s, k) ==
  IF k = 0 \/ k >= Len(s) THEN s
  ELSE SubSeq(s, Len(s) - k + 1, Len(s))

\* s[::-1]
Reverse(s) == [i \in 1..Len(s) |-> s[Len(s) + 1 - i]]

\* a slip: the reversal [::-1] left out
top_k_indices_unreversed(order, top_k) == SliceLast(order, top_k)

\* np.argsort(similarities)[-top_k:][::-1] for one sorted order
top_k_indices(order, top_k) == Reverse(SliceLast(order, top_k))

\* ------------------------------------------------------------------------
\* pickle: the blob is a flat sequence of integers
\*   <<#chunks, chunk_id_1, text_1, ..., rows or -1 for None, v_11, v_12, ...>>
\* ------------------------------------------------------------------------
NoneTag == -1

RECURSIVE FlattenChunks(_)
FlattenChunks(cs) ==
  IF cs = <<>> THEN <<>>
  ELSE <<Head(cs).chunk_id, Head(cs).text>> \o FlattenChunks(Tail(cs))

RECURSIVE FlattenRows(_)
FlattenRows(emb) ==
  IF emb = <<>> THEN <<>> ELSE Head(emb) \o FlattenRows(Tail(emb))

\* pickle.dump({'chunks': ..., 'embeddings': ...})
pickle_dump(cs, emb) ==
  <<Len(cs)>> \o FlattenChunks(cs) \o
  (IF emb = None THEN <<NoneTag>> ELSE <<Len(Rows(emb))>> \o FlattenRows(Rows(emb)))

\* a slip: the two components of every row read back in the wrong order
pickle_load_swapped(blob) ==
  LET n    == blob[1]
      cs   == [i \in 1..n |-> [source |-> "doc.pdf",
                               chunk_id |-> blob[2 * i],
                               text |-> blob[2 * i + 1]]]
      rows == blob[2 * n + 2]
      base == 2 * n + 2
      emb  == IF rows = NoneTag THEN None
              ELSE Some([i \in 1..rows |-> <<blob[base + 2 * i], blob[base + 2 * i - 1]>>])
  IN  [chunks |-> cs, embeddings |-> emb]

\* pickle.load: parse the blob back into the two objects
pickle_load(blob) ==
  LET n    == blob[1]
      cs   == [i \in 1..n |-> [source |-> "doc.pdf",
                               chunk_id |-> blob[2 * i],
                               text |-> blob[2 * i + 1]]]
      rows == blob[2 * n + 2]
      base == 2 * n + 2
      emb  == IF rows = NoneTag THEN None
              ELSE Some([i \in 1..rows |-> <<blob[base + 2 * i - 1], blob[base + 2 * i]>>])
  IN  [chunks |-> cs, embeddings |-> emb]

\* ------------------------------------------------------------------------
\* State
\* ------------------------------------------------------------------------
VARIABLES
  chunks,        \* self.chunks
  embeddings,    \* self.embeddings (None until indexed)
  file,          \* the pickle file on disk: NoFile or a blob
  call,          \* the last call made on the store, with its arguments
  ret,           \* how that call ended: the exception raised and the value
  top_indices,   \* local of the last search
  add_called,    \* history: add_chunks has been called on this store object
  saved          \* history: the store contents written by the last save

storeVars == <<chunks, embeddings, file, call, ret, top_indices, add_called, saved>>

Ok(v) == [raised |-> "none", value |-> v]
Raise(e) == [raised |-> e, value |-> None]

\* no call is in progress: the caller is about to make its next call
NoCall == [op |-> "none"]

\* the caller has looked at how the call ended and moves on
return_to_caller ==
  /\ call # NoCall
  /\ call' = NoCall
  /\ ret' = Ok(None)
  /\ top_indices' = <<>>
  /\ UNCHANGED <<chunks, embeddings, file, add_called, saved>>

\* EmbeddingStore.__init__: also a process start, the file stays on disk
EmbeddingStore_init ==
  /\ call = NoCall
  /\ chunks' = <<>>
  /\ embeddings' = None
  /\ call' = [op |-> "__init__"]
  /\ ret' = Ok(None)
  /\ top_indices' = <<>>
  /\ add_called' = FALSE
  /\ UNCHANGED <<file, saved>>

\* a slip: appending to the stored chunks instead of replacing them
new_chunks_appended(old, arg) == old \o arg

\* the chunk list add_chunks installs: self.chunks = chunks
new_chunks(old, arg) == arg

\* add_chunks(arg): self.chunks is assigned first, then the texts are
\* encoded; encode may raise, and then self.embeddings keeps its old value.
add_chunks ==
  \E arg \in ChunkLists, encode_ok \in BOOLEAN :
    /\ call = NoCall
    /\ chunks' = new_chunks(chunks, arg)
    /\ IF encode_ok
         THEN /\ embeddings' = Some(encode(texts_of(arg)))
              /\ ret' = Ok(None)
         ELSE /\ embeddings' = embeddings
              /\ ret' = Raise("EncodeError")
    /\ call' = [op |-> "add_chunks", arg |-> arg]
    /\ top_indices' = <<>>
    /\ add_called' = TRUE
    /\ UNCHANGED <<file, saved>>

\* the guard of search: if self.embeddings is None
not_indexed(emb) == emb = None

\* a slip: an empty result instead of the error
return_no_results == Ok(<<>>)

\* raise ValueError("No embeddings found. Call add_chunks first.")
raise_no_embeddings == Raise("ValueError: No embeddings found")

\* results.append((self.chunks[idx], similarities[idx])) for idx in top_indices
build_results(cs, sims, idxs) ==
  [i \in 1..Len(idxs) |-> [chunk |-> cs[idxs[i]], similarity |-> sims[idxs[i]]]]

search ==
  \E query \in Texts, top_k \in TopKs :
    /\ call = NoCall
    /\ call' = [op |-> "search", query |-> query, top_k |-> top_k]
    /\ UNCHANGED <<chunks, embeddings, file, add_called, saved>>
    /\ IF not_indexed(embeddings)
         THEN /\ ret' = raise_no_embeddings
              /\ top_indices' = <<>>
         ELSE IF Len(Rows(embeddings)) = 0
         THEN \* cosine_similarity rejects an empty matrix
              /\ ret' = Raise("ValueError: empty array")
              /\ top_indices' = <<>>
         ELSE LET similarities == cosine_similarity(encode_one(query), Rows(embeddings))
              IN  \E order \in argsort(similarities) :
                    /\ top_indices' = top_k_indices(order, top_k)
                    /\ IF \E i \in 1..Len(top_indices') : top_indices'[i] > Len(chunks)
                         THEN ret' = Raise("IndexError")
                         ELSE ret' = Ok(build_results(chunks, similarities, top_indices'))

save ==
  /\ call = NoCall
  /\ file' = pickle_dump(chunks, embeddings)
  /\ saved' = [chunks |-> chunks, embeddings |-> embeddings]
  /\ call' = [op |-> "save"]
  /\ ret' = Ok(None)
  /\ top_indices' = <<>>
  /\ UNCHANGED <<chunks, embeddings, add_called>>

\* load: open() raises when the file is missing; otherwise both fields are
\* assigned from the blob, and the final print of self.embeddings.shape
\* raises when the blob held None for the embeddings.
load ==
  /\ call = NoCall
  /\ call' = [op |-> "load"]
  /\ top_indices' = <<>>
  /\ UNCHANGED <<file, add_called, saved>>
  /\ IF file = NoFile
       THEN /\ ret' = Raise("FileNotFoundError")
            /\ UNCHANGED <<chunks, embeddings>>
       ELSE LET data == pickle_load(file)
            IN  /\ chunks' = data.chunks
                /\ embeddings' = data.embeddings
                /\ ret' = IF data.embeddings = None
                            THEN Raise("AttributeError") ELSE Ok(None)

\* ------------------------------------------------------------------------
\* The store shared by threads: one writer thread calling add_chunks, save
\* and load, one reader thread calling search.  The class takes no lock, so
\* the threads interleave between the statements of each method.
\* ------------------------------------------------------------------------
MaxMutations == 2    \* add_chunks / load calls the writer thread makes

VARIABLES
  mpc,           \* writer: "idle", or the statement it is about to execute
  mdata,         \* writer: the chunks / unpickled data of the call in progress
  ver,           \* history: number of mutations (add_chunks, load) begun
  chunks_ver,    \* history: the mutation that assigned self.chunks
  emb_ver,       \* history: the mutation that last left self.embeddings
  spc,           \* reader: "idle", "score" (line 71) or "collect" (line 82)
  s_call,        \* reader: the search call, with its arguments
  s_sims,        \* reader: similarities
  s_top,         \* reader: top_indices
  s_i,           \* reader: position of the results loop in top_indices
  s_results,     \* reader: results
  s_ret,         \* reader: how the last search ended
  seen_emb,      \* history: version of the matrix the search scored
  seen_chunks    \* history: versions of self.chunks the results loop read

concVars == <<mpc, mdata, ver, chunks_ver, emb_ver, spc, s_call, s_sims, s_top,
              s_i, s_results, s_ret, seen_emb, seen_chunks>>
writerVars == <<mpc, mdata, ver, chunks_ver, emb_ver>>
readerVars == <<spc, s_call, s_sims, s_top, s_i, s_results, s_ret, seen_emb, seen_chunks>>
seqVars == <<call, ret, top_indices, add_called, saved>>

NoData == [chunks |-> <<>>, embeddings |-> None]
Pending == [raised |-> "pending", value |-> None]

ConcInit ==
  /\ mpc = "idle" /\ mdata = NoData
  /\ ver = 0 /\ chunks_ver = 0 /\ emb_ver = 0
  /\ spc = "idle" /\ s_call = [op |-> "none"]
  /\ s_sims = <<>> /\ s_top = <<>> /\ s_i = 0 /\ s_results = <<>>
  /\ s_ret = Ok(None)
  /\ seen_emb = 0 /\ seen_chunks = {}

\* add_chunks, line 50: self.chunks = chunks
w_add_chunks_assign ==
  /\ mpc = "idle" /\ ver < MaxMutations
  /\ \E arg \in ChunkLists :
       /\ chunks' = new_chunks(chunks, arg)
       /\ mdata' = [chunks |-> arg, embeddings |-> None]
  /\ mpc' = "add_chunks:encode"
  /\ ver' = ver + 1
  /\ chunks_ver' = ver + 1
  /\ UNCHANGED <<embeddings, file, emb_ver>>

\* add_chunks, lines 51-55: self.embeddings = self.model.encode(texts),
\* or encode raises and the call ends with self.embeddings as it was
w_add_chunks_encode ==
  /\ mpc = "add_chunks:encode"
  /\ \E encode_ok \in BOOLEAN :
       embeddings' = IF encode_ok THEN Some(encode(texts_of(mdata.chunks)))
                     ELSE embeddings
  /\ emb_ver' = ver
  /\ mpc' = "idle"
  /\ mdata' = NoData
  /\ UNCHANGED <<chunks, file, ver, chunks_ver>>

\* save, lines 89-94
w_save ==
  /\ mpc = "idle"
  /\ file' = pickle_dump(chunks, embeddings)
  /\ UNCHANGED <<chunks, embeddings, writerVars>>

\* load, lines 99-101: unpickle, then self.chunks = data['chunks']
w_load_chunks ==
  /\ mpc = "idle" /\ ver < MaxMutations
  /\ file # NoFile
  /\ mdata' = pickle_load(file)
  /\ chunks' = mdata'.chunks
  /\ mpc' = "load:embeddings"
  /\ ver' = ver + 1
  /\ chunks_ver' = ver + 1
  /\ UNCHANGED <<embeddings, file, emb_ver>>

\* load, line 102: self.embeddings = data['embeddings']
w_load_embeddings ==
  /\ mpc = "load:embeddings"
  /\ embeddings' = mdata.embeddings
  /\ emb_ver' = ver
  /\ mpc' = "idle"
  /\ mdata' = NoData
  /\ UNCHANGED <<chunks, file, ver, chunks_ver>>

\* search, lines 67-68: the None check
r_search_check ==
  /\ spc = "idle"
  /\ \E query \in Texts, top_k \in TopKs :
       s_call' = [op |-> "search", query |-> query, top_k |-> top_k]
  /\ s_sims' = <<>> /\ s_top' = <<>> /\ s_i' = 0 /\ s_results' = <<>>
  /\ seen_emb' = 0 /\ seen_chunks' = {}
  /\ IF not_indexed(embeddings)
       THEN s_ret' = raise_no_embeddings /\ spc' = "idle"
       ELSE s_ret' = Pending /\ spc' = "score"

\* search, lines 71-78: score the matrix as it is now and pick the indices
r_search_score ==
  /\ spc = "score"
  /\ seen_emb' = emb_ver
  /\ UNCHANGED <<s_call, s_results, seen_chunks>>
  /\ IF embeddings = None \/ Len(Rows(embeddings)) = 0
       THEN \* cosine_similarity rejects None (a load put it there after
            \* the check) and an empty matrix
            /\ s_ret' = Raise("ValueError: empty array")
            /\ spc' = "idle"
            /\ UNCHANGED <<s_sims, s_top, s_i>>
       ELSE /\ s_sims' = cosine_similarity(encode_one(s_call.query), Rows(embeddings))
            /\ \E order \in argsort(s_sims') :
                 s_top' = top_k_indices(order, s_call.top_k)
            /\ s_i' = 1
            /\ spc' = "collect"
            /\ UNCHANGED s_ret

\* search, lines 82-83: one turn of the loop, reading self.chunks[idx]
r_search_collect ==
  /\ spc = "collect" /\ s_i <= Len(s_top)
  /\ seen_chunks' = seen_chunks \cup {chunks_ver}
  /\ UNCHANGED <<s_call, s_sims, s_top, seen_emb>>
  /\ IF s_top[s_i] > Len(chunks)
       THEN /\ s_ret' = Raise("IndexError")
            /\ spc' = "idle"
            /\ UNCHANGED <<s_i, s_results>>
       ELSE /\ s_results' = Append(s_results,
                 [chunk |-> chunks[s_top[s_i]], similarity |-> s_sims[s_top[s_i]]])
            /\ s_i' = s_i + 1
            /\ UNCHANGED <<s_ret, spc>>

\* search, line 85: return results
r_search_return ==
  /\ spc = "collect" /\ s_i > Len(s_top)
  /\ s_ret' = Ok(s_results)
  /\ spc' = "idle"
  /\ UNCHANGED <<s_call, s_sims, s_top, s_i, s_results, seen_emb, seen_chunks>>

\* ------------------------------------------------------------------------
\* chunk_text (pdf_processor.py).  A text is a sequence of characters:
\* SPACE is whitespace, any other value is a letter.  A word is a sequence
\* of letters and a chunk is a text again (words joined by one space).
\* ------------------------------------------------------------------------
MaxWords == 58       \* longest text, in words
MaxGap == 2          \* longest run of whitespace after a word
MaxOverlap == 3      \* largest overlap argument
MaxExtraSize == 2    \* chunk sizes go up to MinWords + 1 + MaxExtraSize
MaxDocWords == 620   \* longest document chunked with the default window

SPACE == 0
NEWLINE == -1        \* whitespace too
SPECIAL == -2        \* a character outside [\w\s.,!?;:()\-'], not whitespace
IsSpace(c) == c = SPACE \/ c = NEWLINE
MinWords == 20       \* a chunk is kept when it has more words than this

\* str.split(): the maximal runs of letters, in order.  The positions where
\* a word starts are collected in ascending order by halving the range.
IsWordStart(text, i) == ~IsSpace(text[i]) /\ (i = 1 \/ IsSpace(text[i - 1]))

RECURSIVE WordStarts(_, _, _)
WordStarts(text, lo, hi) ==
  IF lo > hi THEN <<>>
  ELSE IF lo = hi THEN (IF IsWordStart(text, lo) THEN <<lo>> ELSE <<>>)
  ELSE LET mid == (lo + hi) \div 2
       IN  WordStarts(text, lo, mid) \o WordStarts(text, mid + 1, hi)

WordEnd(text, i) ==
  CHOOSE j \in i..Len(text) :
    /\ ~IsSpace(text[j])
    /\ j = Len(text) \/ IsSpace(text[j + 1])

split(text) ==
  LET starts == WordStarts(text, 1, Len(text))
  IN  [n \in 1..Len(starts) |-> SubSeq(text, starts[n], WordEnd(text, starts[n]))]

\* ' '.join(words), built by halves
RECURSIVE join(_)
join(ws) ==
  IF ws = <<>> THEN <<>>
  ELSE IF Len(ws) = 1 THEN ws[1]
  ELSE LET mid == Len(ws) \div 2
       IN  join(SubSeq(ws, 1, mid)) \o <<SPACE>> \o join(SubSeq(ws, mid + 1, Len(ws)))

\* words[i:j] for 0 <= i, in Python's 0-based half-open form
Slice_one_short(ws, i, j) == SubSeq(ws, i + 1, Min(j - 1, Len(ws)))

Slice(ws, i, j) == SubSeq(ws, i + 1, Min(j, Len(ws)))

\* a slip: chunks of exactly MinWords words kept as well
keeps_chunk_at_least(chunk) == Len(split(chunk)) >= MinWords

\* line 50: if len(chunk.split()) > 20
keeps_chunk(chunk) == Len(split(chunk)) > MinWords

\* lines 48-51: for i in range(i, len(words), stride)
RECURSIVE chunk_loop(_, _, _, _, _)
chunk_loop(words, i, chunk_size, stride, acc) ==
  IF i >= Len(words) THEN acc
  ELSE LET chunk == join(Slice(words, i, i + chunk_size))
       IN  chunk_loop(words, i + stride, chunk_size, stride,
                      IF keeps_chunk(chunk) THEN Append(acc, chunk) ELSE acc)

\* chunk_text(text, chunk_size, overlap): range() raises on a step of 0 and
\* is empty on a negative step
chunk_text(text, chunk_size, overlap) ==
  LET words  == split(text)
      stride == chunk_size - overlap
  IN  IF stride = 0 THEN Raise("ValueError: range() arg 3 must not be zero")
      ELSE IF stride < 0 THEN Ok(<<>>)
      ELSE Ok(chunk_loop(words, 0, chunk_size, stride, <<>>))

\* the texts tried: words 1..n, each one letter, each followed by gap spaces
WordsOf(n) == [i \in 1..n |-> <<i>>]

MkText(n, gap) ==
  [p \in 1..(n * (1 + gap)) |->
     IF (p - 1) % (1 + gap) = 0 THEN ((p - 1) \div (1 + gap)) + 1 ELSE SPACE]

ChunkSizes == {1, 2} \cup (MinWords..(MinWords + 1 + MaxExtraSize))

VARIABLES
  c_pc,          \* "idle", "call" (arguments chosen) or "done"
  c_n,           \* history: number of words the text was built from
  c_text,        \* argument text
  c_chunk_size,  \* argument chunk_size
  c_overlap,     \* argument overlap
  c_ret          \* the outcome of chunk_text

chunkVars == <<c_pc, c_n, c_text, c_chunk_size, c_overlap, c_ret>>

ChunkIdle ==
  /\ c_pc = "idle" /\ c_n = 0 /\ c_text = <<>>
  /\ c_chunk_size = 0 /\ c_overlap = 0 /\ c_ret = Ok(None)

\* def chunk_text(text, chunk_size=200, overlap=50), and the arguments
\* process_pdfs passes
DefaultChunkSize == 200
DefaultOverlap == 50

\* either small windows over short texts, or the default window over documents
ChunkArgs ==
  /\ c_pc = "call"
  /\ \/ /\ c_n \in 0..MaxWords
        /\ c_chunk_size \in ChunkSizes
        /\ c_overlap \in 0..MaxOverlap
     \/ /\ c_n \in 0..MaxDocWords
        /\ c_chunk_size = DefaultChunkSize
        /\ c_overlap = DefaultOverlap
  /\ \E gap \in 1..MaxGap : c_text = MkText(c_n, gap)
  /\ c_ret = Ok(None)

call_chunk_text ==
  /\ c_pc = "call"
  /\ c_ret' = chunk_text(c_text, c_chunk_size, c_overlap)
  /\ c_pc' = "done"
  /\ UNCHANGED <<c_n, c_text, c_chunk_size, c_overlap>>

\* ------------------------------------------------------------------------
\* process_pdfs (pdf_processor.py).  A directory is the list os.listdir
\* returns; a file has a name <<stem, extension>> and is either unreadable
\* or a PDF with pages of raw text.
\* ------------------------------------------------------------------------
MaxFiles == 2        \* most entries in a directory

\* words first .. first + n - 1, each followed by gap spaces
PageText(first, n, gap) ==
  [p \in 1..(n * (1 + gap)) |->
     IF (p - 1) % (1 + gap) = 0 THEN first + ((p - 1) \div (1 + gap)) ELSE SPACE]

\* a document of n words on two pages; a noisy one has words two spaces
\* apart and, on each page, a heading of a special character and blank lines
TwoPages(n, noisy) ==
  LET half == n \div 2
      gap  == IF noisy THEN 2 ELSE 1
      head == IF noisy THEN <<SPECIAL, NEWLINE, NEWLINE, SPACE>> ELSE <<>>
  IN  << head \o PageText(1, half, gap), head \o PageText(half + 1, n - half, gap) >>

Unreadable == [readable |-> FALSE, words |-> 0, pages |-> <<>>]
Document(n, noisy) == [readable |-> TRUE, words |-> n, pages |-> TwoPages(n, noisy)]

Contents == {Unreadable, Document(5, FALSE), Document(30, TRUE), Document(600, FALSE)}
FileNames == {<<"a", "pdf">>, <<"b", "pdf">>, <<"notes", "txt">>}
Files == {[name |-> nm, content |-> c] : nm \in FileNames, c \in Contents}

Directories ==
  {d \in SeqsUpTo(Files, MaxFiles) :
     \A i, j \in 1..Len(d) : d[i].name = d[j].name => i = j}

\* f.endswith('.pdf')
endswith_pdf(name) == name[2] = "pdf"

\* open(pdf_path, 'rb') and PdfReader raise on a file that cannot be opened
\* or parsed; otherwise every page's text is followed by "\n"
RECURSIVE concat_pages(_, _)
concat_pages(pages, k) ==
  IF k > Len(pages) THEN <<>>
  ELSE pages[k] \o <<NEWLINE>> \o concat_pages(pages, k + 1)

extract_text_from_pdf(content) ==
  IF ~content.readable THEN Raise("PdfReadError")
  ELSE Ok(concat_pages(content.pages, 1))

\* re.sub(c+, c): of each run of the character c only the first is kept
RECURSIVE KeptPositions(_, _, _, _)
KeptPositions(text, c, lo, hi) ==
  IF lo > hi THEN <<>>
  ELSE IF lo = hi
       THEN (IF text[lo] = c /\ lo > 1 /\ text[lo - 1] = c THEN <<>> ELSE <<lo>>)
  ELSE LET mid == (lo + hi) \div 2
       IN  KeptPositions(text, c, lo, mid) \o KeptPositions(text, c, mid + 1, hi)

squeeze(text, c) ==
  LET keep == KeptPositions(text, c, 1, Len(text))
  IN  [k \in 1..Len(keep) |-> text[keep[k]]]

\* re.sub(r'[^\w\s.,!?;:()\-\']', ' ', text)
sub_special(text) ==
  [i \in 1..Len(text) |-> IF text[i] = SPECIAL THEN SPACE ELSE text[i]]

\* str.strip()
strip(text) ==
  IF \A i \in 1..Len(text) : IsSpace(text[i]) THEN <<>>
  ELSE LET first == CHOOSE i \in 1..Len(text) :
                      ~IsSpace(text[i]) /\ \A j \in 1..(i - 1) : IsSpace(text[j])
           last  == CHOOSE i \in 1..Len(text) :
                      ~IsSpace(text[i]) /\ \A j \in (i + 1)..Len(text) : IsSpace(text[j])
       IN  SubSeq(text, first, last)

clean_text(text) == strip(sub_special(squeeze(squeeze(text, NEWLINE), SPACE)))

\* for i, chunk in enumerate(chunks): all_chunks.append({...})
with_metadata_from_one(pdf_file, chs) ==
  [i \in 1..Len(chs) |-> [source |-> pdf_file, chunk_id |-> i, text |-> chs[i]]]

with_metadata(pdf_file, chs) ==
  [i \in 1..Len(chs) |-> [source |-> pdf_file, chunk_id |-> i - 1, text |-> chs[i]]]

\* the loop over pdf_files: an exception of extract_text_from_pdf or of
\* chunk_text leaves the function, and all_chunks with it
RECURSIVE process_loop(_, _, _)
process_loop(pdf_files, k, all_chunks) ==
  IF k > Len(pdf_files) THEN Ok(all_chunks)
  ELSE LET raw_text == extract_text_from_pdf(pdf_files[k].content)
       IN  IF raw_text.raised # "none" THEN Raise(raw_text.raised)
           ELSE LET chs == chunk_text(clean_text(raw_text.value),
                                      DefaultChunkSize, DefaultOverlap)
                IN  IF chs.raised # "none" THEN Raise(chs.raised)
                    ELSE process_loop(pdf_files, k + 1,
                           all_chunks \o with_metadata(pdf_files[k].name, chs.value))

process_pdfs(directory) ==
  LET pdf_files == SelectSeq(directory, LAMBDA f : endswith_pdf(f.name))
  IN  process_loop(pdf_files, 1, <<>>)

VARIABLES
  p_pc,     \* "idle", "call" (directory chosen) or "done"
  p_dir,    \* the directory process_pdfs is called on
  p_ret     \* the outcome of process_pdfs

ingestVars == <<p_pc, p_dir, p_ret>>

IngestIdle == p_pc = "idle" /\ p_dir = <<>> /\ p_ret = Ok(None)

IngestArgs == p_pc = "call" /\ p_dir \in Directories /\ p_ret = Ok(None)

call_process_pdfs ==
  /\ p_pc = "call"
  /\ p_ret' = process_pdfs(p_dir)
  /\ p_pc' = "done"
  /\ UNCHANGED p_dir

\* ------------------------------------------------------------------------
\* RateLimiter (rate_limiter.py): the two fields it keeps in the session
\* state, and the last call made on it with what it returned.
\* ------------------------------------------------------------------------
max_queries == 5            \* RateLimiter(max_queries=5, ...)
max_input_length == 500     \* RateLimiter(..., max_input_length=500)
MaxCount == 15              \* increment_count is not called beyond this count

\* the lengths of the queries tried: empty, short, at the limit, beyond it
QueryLengths == {0, 1, max_input_length, max_input_length + 1}

VARIABLES
  query_count,   \* st.session_state.query_count
  is_admin,      \* st.session_state.is_admin
  l_call,        \* the last RateLimiter method called
  l_ret          \* what it returned

limVars == <<query_count, is_admin, l_call, l_ret>>

\* RateLimiter.__init__ on a new session
LimiterInit ==
  /\ query_count = 0
  /\ is_admin = FALSE
  /\ l_call = [op |-> "none"]
  /\ l_ret = None

\* can_query: the flag of the (allowed, reason) pair
can_query_off_by_one(admin, count) == admin \/ count <= max_queries

can_query(admin, count) ==
  IF admin THEN TRUE
  ELSE IF count >= max_queries THEN FALSE
  ELSE TRUE

\* check_input_length: the flag of the (valid, message) pair
check_input_length(len) == ~(len > max_input_length)

\* increment_count: the new query_count
incremented_always(admin, count) == count + 1

incremented(admin, count) == IF ~admin THEN count + 1 ELSE count

\* get_remaining_queries; float('inf') is -1 here
Unlimited == -1
remaining_queries(admin, count) ==
  IF admin THEN Unlimited
  ELSE IF max_queries - count > 0 THEN max_queries - count ELSE 0

grant_admin_access ==
  /\ is_admin' = TRUE
  /\ query_count' = 0
  /\ l_call' = [op |-> "grant_admin_access"]
  /\ l_ret' = None

call_can_query ==
  /\ l_call' = [op |-> "can_query"]
  /\ l_ret' = Some(can_query(is_admin, query_count))
  /\ UNCHANGED <<query_count, is_admin>>

call_check_input_length ==
  \E len \in QueryLengths :
    /\ l_call' = [op |-> "check_input_length", len |-> len]
    /\ l_ret' = Some(check_input_length(len))
    /\ UNCHANGED <<query_count, is_admin>>

increment_count ==
  /\ query_count < MaxCount
  /\ query_count' = incremented(is_admin, query_count)
  /\ l_call' = [op |-> "increment_count"]
  /\ l_ret' = None
  /\ UNCHANGED is_admin

get_remaining_queries ==
  /\ l_call' = [op |-> "get_remaining_queries"]
  /\ l_ret' = Some(remaining_queries(is_admin, query_count))
  /\ UNCHANGED <<query_count, is_admin>>

reset_session ==
  /\ query_count' = 0
  /\ l_call' = [op |-> "reset_session"]
  /\ l_ret' = None
  /\ UNCHANGED is_admin

\* ------------------------------------------------------------------------
\* RAGSystem (rag_system.py).  ask runs on the store held in chunks and
\* embeddings; the LLM client and the query logger are its collaborators.
\* A query is its text and its length in characters; token counts are left
\* out of the result.
\* ------------------------------------------------------------------------
MaxLlmCalls == 7     \* no call of ask starts after this many LLM calls

EmptyQuery == [text |-> 0, len |-> 0]
Queries ==
  {EmptyQuery} \cup {[text |-> t, len |-> n] : t \in Texts, n \in QueryLengths \ {0}}

\* the stores a RAGSystem is built on: never indexed, or indexed
Stores ==
  {[chunks |-> <<>>, embeddings |-> None]} \cup
  {[chunks |-> cs, embeddings |-> Some(encode(texts_of(cs)))] : cs \in ChunkLists}

\* EmbeddingStore.search as ask sees it: every outcome it can have
store_search(cs, emb, query, top_k) ==
  IF not_indexed(emb) THEN {raise_no_embeddings}
  ELSE IF Len(Rows(emb)) = 0 THEN {Raise("ValueError: empty array")}
  ELSE LET similarities == cosine_similarity(encode_one(query), Rows(emb))
       IN  { LET idxs == top_k_indices(order, top_k)
             IN  IF \E i \in 1..Len(idxs) : idxs[i] > Len(cs)
                   THEN Raise("IndexError")
                   ELSE Ok(build_results(cs, similarities, idxs))
             : order \in argsort(similarities) }

\* sources.append({...}) for each retrieved (chunk, score)
build_sources(retrieved) ==
  [i \in 1..Len(retrieved) |->
     [source     |-> retrieved[i].chunk.source,
      chunk_id   |-> retrieved[i].chunk.chunk_id,
      similarity |-> retrieved[i].similarity,
      text       |-> [preview_of |-> retrieved[i].chunk.text]]]

\* self.client.messages.create(...): the API answers with text, answers with
\* no content block, or raises
LlmOutcomes == {"answer", "empty", "api_error"}

create_message_never_raising(o) == Ok([content |-> <<"answer">>])

create_message(o) ==
  IF o = "api_error" THEN Raise("APIError")
  ELSE Ok([content |-> IF o = "empty" THEN <<>> ELSE <<"answer">>])

\* message.content[0].text
first_text(message) ==
  IF Len(message.content) = 0 THEN Raise("IndexError") ELSE Ok(message.content[1])

\* QueryLogger.log_query: sqlite3 raises, or the row is committed
log_query(ok) == IF ok THEN Ok(None) ELSE Raise("sqlite3.Error")

VARIABLES
  enable_logging,  \* RAGSystem.enable_logging
  db_rows,         \* number of rows in the query_logs table
  llm_calls,       \* history: number of calls of messages.create
  a_pc,            \* "idle", "retrieve", "generate", "log" or "done"
  a_query,         \* ask's argument query
  a_top_k,         \* ask's argument top_k
  a_retrieved,     \* retrieved
  a_sources,       \* sources
  a_answer,        \* answer
  a_trace,         \* history: what this call of ask has invoked so far
  a_ret            \* the outcome of ask

ragVars == <<enable_logging, db_rows, llm_calls, a_pc, a_query, a_top_k,
             a_retrieved, a_sources, a_answer, a_trace, a_ret>>

RagIdle ==
  /\ db_rows = 0 /\ llm_calls = 0
  /\ a_pc = "idle" /\ a_query = EmptyQuery /\ a_top_k = 0
  /\ a_retrieved = <<>> /\ a_sources = <<>> /\ a_answer = None
  /\ a_trace = <<>> /\ a_ret = Ok(None)

\* ask(query, top_k) is entered
enter_ask(query, top_k) ==
  /\ a_pc' = "retrieve"
  /\ a_query' = query
  /\ a_top_k' = top_k
  /\ a_retrieved' = <<>>
  /\ a_sources' = <<>>
  /\ a_answer' = None
  /\ a_trace' = <<>>
  /\ a_ret' = Ok(None)
  /\ UNCHANGED <<enable_logging, db_rows, llm_calls>>

\* a caller calls ask directly
ask ==
  \E query \in Queries, top_k \in TopKs :
    /\ a_pc \in {"idle", "done"}
    /\ llm_calls < MaxLlmCalls
    /\ enter_ask(query, top_k)

\* retrieved = self.retrieve(query, top_k=top_k)
ask_retrieve ==
  /\ a_pc = "retrieve"
  /\ \E r \in store_search(chunks, embeddings, a_query.text, a_top_k) :
       /\ a_trace' = Append(a_trace, "search")
       /\ IF r.raised # "none"
            THEN a_ret' = Raise(r.raised) /\ a_pc' = "done" /\ UNCHANGED a_retrieved
            ELSE a_retrieved' = r.value /\ a_pc' = "generate" /\ UNCHANGED a_ret
  /\ UNCHANGED <<enable_logging, db_rows, llm_calls, a_query, a_top_k, a_sources, a_answer>>

\* generate_answer up to answer = message.content[0].text
ask_generate ==
  /\ a_pc = "generate"
  /\ a_sources' = build_sources(a_retrieved)
  /\ llm_calls' = llm_calls + 1
  /\ \E o \in LlmOutcomes :
       LET message == create_message(o)
           answer  == IF message.raised # "none" THEN message ELSE first_text(message.value)
       IN  /\ a_trace' = a_trace \o <<"llm">> \o
                           (IF o = "api_error" THEN <<>> ELSE <<"llm_returned">>)
           /\ IF answer.raised # "none"
                THEN a_ret' = Raise(answer.raised) /\ a_pc' = "done" /\ UNCHANGED a_answer
                ELSE a_answer' = Some(answer.value) /\ a_pc' = "log" /\ UNCHANGED a_ret
  /\ UNCHANGED <<enable_logging, db_rows, a_query, a_top_k, a_retrieved>>

\* what generate_answer returns
result_of_ask ==
  [query |-> a_query, answer |-> a_answer[1], sources |-> a_sources,
   retrieved_count |-> Len(a_retrieved)]

\* the rest of generate_answer: log_query when logging is enabled, then return
ask_log ==
  /\ a_pc = "log"
  /\ a_pc' = "done"
  /\ IF enable_logging
       THEN \E ok \in BOOLEAN :
              LET written == log_query(ok)
              IN  /\ a_trace' = a_trace \o <<"log">> \o
                                  (IF ok THEN <<"log_written">> ELSE <<>>)
                  /\ db_rows' = IF ok THEN db_rows + 1 ELSE db_rows
                  /\ IF written.raised # "none"
                       THEN a_ret' = Raise(written.raised)
                       ELSE a_ret' = Ok(result_of_ask)
       ELSE /\ a_ret' = Ok(result_of_ask)
            /\ UNCHANGED <<a_trace, db_rows>>
  /\ UNCHANGED <<enable_logging, llm_calls, a_query, a_top_k, a_retrieved, a_sources, a_answer>>

\* ------------------------------------------------------------------------
\* The Streamlit page (app.py): one session.  Every interaction reruns the
\* script; a run that calls ask ends when ask has returned or raised.
\* ------------------------------------------------------------------------
\* st.slider("Number of chunks to retrieve", min_value=3, max_value=10)
SliderTopKs == {3, 10}

VARIABLES
  ui_out         \* what the last run of the script showed

appVars == <<limVars, ragVars, ui_out>>

\* a new session on a page that is not yet used; RAGSystem(store, api_key)
\* leaves enable_logging at its default
AppIdle ==
  /\ LimiterInit
  /\ RagIdle
  /\ enable_logging = TRUE
  /\ ui_out = "none"

\* the query block: the rate limit, then the length, then ask
ui_submit ==
  \E query \in Queries, top_k \in SliderTopKs :
    /\ a_pc = "idle"
    /\ llm_calls < MaxLlmCalls
    /\ UNCHANGED <<query_count, is_admin>>
    /\ IF query.len = 0
         THEN /\ ui_out' = "Please enter a question."
              /\ UNCHANGED <<l_call, l_ret, ragVars>>
         ELSE IF ~can_query(is_admin, query_count)
         THEN /\ ui_out' = "Query limit reached"
              /\ l_call' = [op |-> "can_query"]
              /\ l_ret' = Some(FALSE)
              /\ UNCHANGED ragVars
         ELSE /\ l_call' = [op |-> "check_input_length", len |-> query.len]
              /\ l_ret' = Some(check_input_length(query.len))
              /\ IF ~check_input_length(query.len)
                   THEN ui_out' = "Query too long" /\ UNCHANGED ragVars
                   ELSE ui_out' = "Searching and generating answer..."
                        /\ enter_ask(query, top_k)

\* ask returned: rate_limiter.increment_count(), then the answer is shown
ui_ask_returned ==
  /\ a_pc = "done"
  /\ a_ret.raised = "none"
  /\ query_count' = incremented(is_admin, query_count)
  /\ l_call' = [op |-> "increment_count"]
  /\ l_ret' = None
  /\ ui_out' = "Answer"
  /\ a_pc' = "idle"
  /\ UNCHANGED <<is_admin, enable_logging, db_rows, llm_calls, a_query, a_top_k,
                 a_retrieved, a_sources, a_answer, a_trace, a_ret>>

\* ask raised: the exception ends the run of the script where it stands
ui_ask_raised ==
  /\ a_pc = "done"
  /\ a_ret.raised # "none"
  /\ ui_out' = "Error"
  /\ a_pc' = "idle"
  /\ UNCHANGED <<limVars, enable_logging, db_rows, llm_calls, a_query, a_top_k,
                 a_retrieved, a_sources, a_answer, a_trace, a_ret>>

\* render_admin_panel, not admin: the Login button
ui_login ==
  /\ a_pc = "idle"
  /\ ~is_admin
  /\ UNCHANGED ragVars
  /\ \E correct \in BOOLEAN :
       IF correct
         THEN grant_admin_access /\ ui_out' = "Admin access granted!"
         ELSE UNCHANGED limVars /\ ui_out' = "Incorrect password"

\* render_admin_panel, admin: the Reset Session button
ui_reset_session ==
  /\ a_pc = "idle"
  /\ is_admin
  /\ reset_session
  /\ ui_out' = "Admin Mode Active"
  /\ UNCHANGED ragVars

Init ==
  /\ chunks = <<>>
  /\ embeddings = None
  /\ file = NoFile
  /\ call = NoCall
  /\ ret = Ok(None)
  /\ top_indices = <<>>
  /\ add_called = FALSE
  /\ saved = [chunks |-> <<>>, embeddings |-> None]
  /\ ConcInit
  /\ ChunkIdle
  /\ IngestIdle
  /\ AppIdle

vars == <<storeVars, concVars, chunkVars, ingestVars, appVars>>

\* calls made one after another on one store
Next ==
  \/ EmbeddingStore_init /\ UNCHANGED <<concVars, chunkVars, ingestVars, appVars>>
  \/ add_chunks /\ UNCHANGED <<concVars, chunkVars, ingestVars, appVars>>
  \/ search /\ UNCHANGED <<concVars, chunkVars, ingestVars, appVars>>
  \/ save /\ UNCHANGED <<concVars, chunkVars, ingestVars, appVars>>
  \/ load /\ UNCHANGED <<concVars, chunkVars, ingestVars, appVars>>
  \/ return_to_caller /\ UNCHANGED <<concVars, chunkVars, ingestVars, appVars>>

Spec == Init /\ [][Next]_vars

\* a writer thread and a reader thread on one store
NextConc ==
  \/ w_add_chunks_assign /\ UNCHANGED <<seqVars, readerVars, chunkVars, ingestVars, appVars>>
  \/ w_add_chunks_encode /\ UNCHANGED <<seqVars, readerVars, chunkVars, ingestVars, appVars>>
  \/ w_save /\ UNCHANGED <<seqVars, readerVars, chunkVars, ingestVars, appVars>>
  \/ w_load_chunks /\ UNCHANGED <<seqVars, readerVars, chunkVars, ingestVars, appVars>>
  \/ w_load_embeddings /\ UNCHANGED <<seqVars, readerVars, chunkVars, ingestVars, appVars>>
  \/ r_search_check /\ UNCHANGED <<chunks, embeddings, file, seqVars, writerVars, chunkVars, ingestVars, appVars>>
  \/ r_search_score /\ UNCHANGED <<chunks, embeddings, file, seqVars, writerVars, chunkVars, ingestVars, appVars>>
  \/ r_search_collect /\ UNCHANGED <<chunks, embeddings, file, seqVars, writerVars, chunkVars, ingestVars, appVars>>
  \/ r_search_return /\ UNCHANGED <<chunks, embeddings, file, seqVars, writerVars, chunkVars, ingestVars, appVars>>

SpecConc == Init /\ [][NextConc]_vars

\* chunk_text applied to each text and each pair of arguments
InitChunk ==
  /\ chunks = <<>>
  /\ embeddings = None
  /\ file = NoFile
  /\ call = NoCall
  /\ ret = Ok(None)
  /\ top_indices = <<>>
  /\ add_called = FALSE
  /\ saved = [chunks |-> <<>>, embeddings |-> None]
  /\ ConcInit
  /\ ChunkArgs
  /\ IngestIdle
  /\ AppIdle

NextChunk ==
  call_chunk_text /\ UNCHANGED <<storeVars, concVars, ingestVars, appVars>>

SpecChunk == InitChunk /\ [][NextChunk]_vars

\* a fresh store, and no thread running
StoreFresh ==
  /\ chunks = <<>>
  /\ embeddings = None
  /\ file = NoFile
  /\ call = NoCall
  /\ ret = Ok(None)
  /\ top_indices = <<>>
  /\ add_called = FALSE
  /\ saved = [chunks |-> <<>>, embeddings |-> None]
  /\ ConcInit

\* process_pdfs applied to each directory
InitIngest ==
  /\ StoreFresh
  /\ ChunkIdle
  /\ IngestArgs
  /\ AppIdle

NextIngest ==
  call_process_pdfs /\ UNCHANGED <<storeVars, concVars, chunkVars, appVars>>

SpecIngest == InitIngest /\ [][NextIngest]_vars

\* a store as the RAGSystem finds it; nothing calls the store's own methods
StoreGiven(st) ==
  /\ chunks = st.chunks
  /\ embeddings = st.embeddings
  /\ file = NoFile
  /\ call = NoCall
  /\ ret = Ok(None)
  /\ top_indices = <<>>
  /\ add_called = FALSE
  /\ saved = [chunks |-> <<>>, embeddings |-> None]
  /\ ConcInit

otherVars == <<storeVars, concVars, chunkVars, ingestVars>>

\* calls of the RateLimiter's methods in any order
InitLimiter ==
  /\ StoreFresh
  /\ ChunkIdle
  /\ IngestIdle
  /\ AppIdle

NextLimiter ==
  \/ grant_admin_access /\ UNCHANGED <<otherVars, ragVars, ui_out>>
  \/ call_can_query /\ UNCHANGED <<otherVars, ragVars, ui_out>>
  \/ call_check_input_length /\ UNCHANGED <<otherVars, ragVars, ui_out>>
  \/ increment_count /\ UNCHANGED <<otherVars, ragVars, ui_out>>
  \/ get_remaining_queries /\ UNCHANGED <<otherVars, ragVars, ui_out>>
  \/ reset_session /\ UNCHANGED <<otherVars, ragVars, ui_out>>

SpecLimiter == InitLimiter /\ [][NextLimiter]_vars

\* calls of ask, one after another, on a RAGSystem built on any store
InitAsk ==
  /\ \E st \in Stores : StoreGiven(st)
  /\ ChunkIdle
  /\ IngestIdle
  /\ LimiterInit
  /\ RagIdle
  /\ enable_logging \in BOOLEAN
  /\ ui_out = "none"

NextAsk ==
  \/ ask /\ UNCHANGED <<otherVars, limVars, ui_out>>
  \/ ask_retrieve /\ UNCHANGED <<otherVars, limVars, ui_out>>
  \/ ask_generate /\ UNCHANGED <<otherVars, limVars, ui_out>>
  \/ ask_log /\ UNCHANGED <<otherVars, limVars, ui_out>>

SpecAsk == InitAsk /\ [][NextAsk]_vars

\* one session of the page, on a store that load has filled
InitApp ==
  /\ \E st \in Stores : st.embeddings # None /\ StoreGiven(st)
  /\ ChunkIdle
  /\ IngestIdle
  /\ AppIdle

NextApp ==
  \/ ui_submit /\ UNCHANGED otherVars
  \/ ask_retrieve /\ UNCHANGED <<otherVars, limVars, ui_out>>
  \/ ask_generate /\ UNCHANGED <<otherVars, limVars, ui_out>>
  \/ ask_log /\ UNCHANGED <<otherVars, limVars, ui_out>>
  \/ ui_ask_returned /\ UNCHANGED otherVars
  \/ ui_ask_raised /\ UNCHANGED otherVars
  \/ ui_login /\ UNCHANGED otherVars
  \/ ui_reset_session /\ UNCHANGED otherVars

SpecApp == InitApp /\ [][NextApp]_vars

\* ------------------------------------------------------------------------
\* Properties of the store, checked under Spec
\* ------------------------------------------------------------------------
NumVectors == IF embeddings = None THEN 0 ELSE Len(Rows(embeddings))

\* the store is indexed: every chunk has its own vector, in the same order
Indexed ==
  /\ embeddings # None
  /\ Len(Rows(embeddings)) = Len(chunks)
  /\ \A i \in 1..Len(chunks) : Rows(embeddings)[i] = encode_one(chunks[i].text)

SearchDone == call.op = "search"
SearchReturned == SearchDone /\ ret.raised = "none"

\* similarity of the stored chunk at position j to the last query
SimOf(j) == cosine(encode_one(call.query), encode_one(chunks[j].text))

\* positions (in insertion order) of the chunks the last search returned
ReturnedPositions ==
  {j \in 1..Len(chunks) : \E i \in 1..Len(ret.value) : ret.value[i].chunk = chunks[j]}

\* C1: in every state reached by add_chunks, load, save and search from a
\* fresh store, the number of chunks equals the number of embedding vectors
\* and embeddings[i] is the vector of chunks[i].
Inv_C1_ChunksMatchEmbeddings ==
  /\ Len(chunks) = NumVectors
  /\ embeddings # None =>
       \A i \in 1..Len(chunks) : Rows(embeddings)[i] = encode_one(chunks[i].text)

Inv_C3_TopKZeroEmpty ==
  (SearchDone /\ call.top_k = 0 /\ Indexed /\ Len(chunks) >= 1) =>
    (ret.raised = "none" /\ ret.value = <<>>)

\* C4: chunks of equal similarity are returned in ascending order of their
\* insertion index.
Inv_C4_TiesByInsertionIndex ==
  (SearchReturned /\ Indexed) =>
    \A i, j \in 1..Len(ret.value) :
      (i < j /\ SimEq(ret.value[i].similarity, ret.value[j].similarity)) =>
        top_indices[i] < top_indices[j]

\* C6 as stated: search (with a positive top_k) on a store on which
\* add_chunks was never called fails (with the not-indexed error) and
\* returns no results.
Inv_C6_NeverAddedFails ==
  (SearchDone /\ call.top_k >= 1 /\ ~add_called) =>
    (ret.raised # "none" /\ ret.value = <<>>)

\* C6 amended: search on a store whose embeddings are still None (no
\* add_chunks has finished encoding and no load has installed a matrix)
\* fails with the not-indexed error and returns nothing, and no search
\* changes chunks or embeddings.
Thm_C6_NotIndexedFails ==
  /\ [](SearchDone /\ embeddings = None =>
          ret = Raise("ValueError: No embeddings found"))
  /\ [][call'.op = "search" => UNCHANGED <<chunks, embeddings>>]_vars

\* a search on a fresh store that failed
Wit_C6_SearchBeforeIndex ==
  /\ SearchDone /\ ~add_called /\ embeddings = None
  /\ ret.raised = "ValueError: No embeddings found"

\* C7: after add_chunks(C) returns, the stored chunks are exactly C and the
\* embeddings are exactly the encodings of C, whatever the store held.
Thm_C7_AddChunksReplaces ==
  (call.op = "add_chunks" /\ ret.raised = "none") =>
    /\ Len(chunks) = Len(call.arg)
    /\ embeddings # None
    /\ Len(Rows(embeddings)) = Len(call.arg)
    /\ \A i \in 1..Len(call.arg) :
         /\ chunks[i] = call.arg[i]
         /\ Rows(embeddings)[i] = encode_one(call.arg[i].text)

\* add_chunks of one chunk on a store whose two earlier chunks were saved
Wit_C7_ReplacedEarlierContents ==
  /\ call.op = "add_chunks" /\ ret.raised = "none"
  /\ Len(call.arg) = 1
  /\ file # NoFile /\ Len(saved.chunks) = 2

\* C8: a load that succeeds installs exactly the chunks and the embedding
\* matrix the store had when the file was saved, and save changes neither.
Thm_C8_SaveLoadRoundTrip ==
  /\ [](call.op = "load" /\ ret.raised = "none" =>
          /\ chunks = saved.chunks
          /\ embeddings = saved.embeddings)
  /\ [][call'.op = "save" => UNCHANGED <<chunks, embeddings>>]_vars

\* a saved store of two chunks loaded into a newly constructed store
Wit_C8_LoadedIntoFreshStore ==
  /\ call.op = "load" /\ ret.raised = "none"
  /\ ~add_called
  /\ Len(chunks) = 2 /\ chunks[1].text # chunks[2].text
  /\ Indexed

\* the blob holds a different number of chunks than of embedding rows
BlobMismatch(blob) ==
  /\ blob # NoFile
  /\ pickle_load(blob).embeddings # None
  /\ Len(pickle_load(blob).chunks) # Len(Rows(pickle_load(blob).embeddings))

\* C9: load of a blob whose chunk count differs from its row count fails
\* with a CorruptionError and does not install the mismatched data.
Inv_C9_MismatchRejected ==
  (call.op = "load" /\ BlobMismatch(file)) =>
    /\ ret.raised = "CorruptionError"
    /\ Len(chunks) = NumVectors

\* ------------------------------------------------------------------------
\* Properties of the shared store, checked under SpecConc
\* ------------------------------------------------------------------------
\* C5: a search running while add_chunks or load runs reads self.chunks and
\* self.embeddings of one version of the corpus: the matrix it scored and
\* every chunk list it read were left by the same mutation.
Inv_C5_SearchSeesOneVersion ==
  \A v \in seen_chunks : v = seen_emb

\* ------------------------------------------------------------------------
\* Properties of chunk_text, checked under SpecChunk
\* ------------------------------------------------------------------------
Stride == c_chunk_size - c_overlap

\* the window of words starting at (0-based) word index s
Window(s) ==
  [k \in 1..Min(c_chunk_size, c_n - s) |-> WordsOf(c_n)[s + k]]

\* start indices 0, stride, 2*stride, ... below the number of words whose
\* window has more than MinWords words
KeptStarts ==
  {s \in 0..(c_n - 1) : s % Stride = 0 /\ Len(Window(s)) > MinWords}

LastWords(ws, k) == SubSeq(ws, Len(ws) - k + 1, Len(ws))
FirstWords(ws, k) == SubSeq(ws, 1, k)

\* C11: in chunk_text(text, chunk_size=200, overlap=50), for each pair of
\* consecutive returned windows the last 50 words of the earlier one are the
\* first 50 words of the later one, except possibly when the later one is
\* the final window and is short (fewer than chunk_size words).
Thm_C11_ConsecutiveWindowsOverlap ==
  (c_pc = "done" /\ c_chunk_size = DefaultChunkSize /\ c_overlap = DefaultOverlap) =>
    /\ c_ret.raised = "none"
    /\ \A k \in 1..(Len(c_ret.value) - 1) :
         LET a == split(c_ret.value[k])
             b == split(c_ret.value[k + 1])
         IN  \/ k + 1 = Len(c_ret.value) /\ Len(b) < c_chunk_size
             \/ /\ Len(a) >= c_overlap
                /\ Len(b) >= c_overlap
                /\ LastWords(a, c_overlap) = FirstWords(b, c_overlap)

\* three windows are returned with the default arguments: the second is a
\* full window that is not the last, the third is short
Wit_C11_ThreeWindows ==
  /\ c_pc = "done" /\ c_chunk_size = DefaultChunkSize /\ c_overlap = DefaultOverlap
  /\ Len(c_ret.value) = 3
  /\ Len(split(c_ret.value[2])) = DefaultChunkSize
  /\ Len(split(c_ret.value[3])) < DefaultChunkSize

\* C12: whenever overlap >= chunk_size (equal or greater), chunk_text fails
\* with an error and produces no chunks.
Inv_C12_OverlapTooLargeFails ==
  (c_pc = "done" /\ c_overlap >= c_chunk_size) =>
    (c_ret.raised # "none" /\ c_ret.value = None)

\* ------------------------------------------------------------------------
\* Properties of process_pdfs, checked under SpecIngest
\* ------------------------------------------------------------------------
\* the directory holds one file, a readable PDF of exactly 600 words
OneDocOf600 ==
  /\ Len(p_dir) = 1
  /\ endswith_pdf(p_dir[1].name)
  /\ p_dir[1].content.readable
  /\ p_dir[1].content.words = 600

\* C13 as stated: ingesting a directory with one document of exactly 600
\* words yields exactly 3 chunks, numbered chunk_id 0, 1, 2, each with
\* source equal to the file name.
Inv_C13_ThreeChunks ==
  (p_pc = "done" /\ OneDocOf600) =>
    /\ p_ret.raised = "none"
    /\ Len(p_ret.value) = 3
    /\ \A k \in 1..Len(p_ret.value) :
         p_ret.value[k].chunk_id = k - 1 /\ p_ret.value[k].source = p_dir[1].name

\* C13 amended: the document yields exactly 4 chunks, the windows starting
\* at words 0, 150, 300 and 450 (200, 200, 200 and 150 words), numbered
\* chunk_id 0, 1, 2, 3, each with source equal to the file name.
Thm_C13_FourChunks ==
  (p_pc = "done" /\ OneDocOf600) =>
    /\ p_ret.raised = "none"
    /\ Len(p_ret.value) = 4
    /\ \A k \in 1..Len(p_ret.value) :
         /\ p_ret.value[k].chunk_id = k - 1
         /\ p_ret.value[k].source = p_dir[1].name
         /\ split(p_ret.value[k].text) =
              [w \in 1..Min(DefaultChunkSize, 600 - (k - 1) * (DefaultChunkSize - DefaultOverlap)) |->
                 <<(k - 1) * (DefaultChunkSize - DefaultOverlap) + w>>]

\* the 600-word document was ingested and its last window, of 150 words,
\* was kept as chunk 3
Wit_C13_FourthChunkKept ==
  /\ p_pc = "done" /\ OneDocOf600 /\ p_ret.raised = "none"
  /\ Len(p_ret.value) = 4
  /\ p_ret.value[4].chunk_id = 3
  /\ Len(split(p_ret.value[4].text)) = 150

\* the chunks process_pdfs makes of one readable file, with their metadata
ChunksOf(f) ==
  with_metadata(f.name,
    chunk_text(clean_text(extract_text_from_pdf(f.content).value),
               DefaultChunkSize, DefaultOverlap).value)

PdfsIn(d) == {i \in 1..Len(d) : endswith_pdf(d[i].name)}

\* C14: a PDF that cannot be opened or parsed does not abort process_pdfs:
\* the call returns, and the chunks of every other PDF of the directory are
\* in what it returns.  Stated for directories where another PDF has chunks.
Inv_C14_BadFileDoesNotAbort ==
  ( /\ p_pc = "done"
    /\ \E i \in PdfsIn(p_dir) : ~p_dir[i].content.readable
    /\ \E j \in PdfsIn(p_dir) : p_dir[j].content.readable /\ ChunksOf(p_dir[j]) # <<>> ) =>
    /\ p_ret.raised = "none"
    /\ \A j \in PdfsIn(p_dir) :
         p_dir[j].content.readable =>
           \A c \in 1..Len(ChunksOf(p_dir[j])) :
             \E k \in 1..Len(p_ret.value) : p_ret.value[k] = ChunksOf(p_dir[j])[c]

\* ------------------------------------------------------------------------
\* Properties of RAGSystem.ask, checked under SpecAsk
\* ------------------------------------------------------------------------
Invoked(e) == \E i \in 1..Len(a_trace) : a_trace[i] = e

\* C15: in every execution of ask the logger is invoked, and a log record
\* written, only after the LLM call of that execution has returned; when
\* retrieval or the LLM call failed (ask ended with no answer) no log record
\* was written; the table never holds more rows than LLM calls were made.
Thm_C15_LogOnlyAfterLlmReturned ==
  /\ \A i \in 1..Len(a_trace) :
       a_trace[i] \in {"log", "log_written"} =>
         \E j \in 1..(i - 1) : a_trace[j] = "llm_returned"
  /\ (a_pc = "done" /\ a_answer = None) =>
       (a_ret.raised # "none" /\ ~Invoked("log") /\ ~Invoked("log_written"))
  /\ db_rows <= llm_calls

\* an execution of ask has written its log record and returned
Wit_C15_Logged ==
  a_pc = "done" /\ Invoked("log_written") /\ a_ret.raised = "none" /\ db_rows >= 1

\* C16: when the logger fails while recording a query whose retrieval and
\* synthesis succeeded, ask still returns the complete answer and does not
\* raise.
Inv_C16_LogFailureTolerated ==
  (a_pc = "done" /\ Invoked("log") /\ ~Invoked("log_written")) =>
    (a_ret.raised = "none" /\ a_ret.value = result_of_ask)

\* C17: when the LLM call raises after retrieval succeeded, ask reports an
\* error and the ranked sources retrieved before the failure are available
\* to the caller in what ask hands back.
Inv_C17_SourcesSurviveLlmFailure ==
  (a_pc = "done" /\ Invoked("llm") /\ ~Invoked("llm_returned") /\ Len(a_retrieved) >= 1) =>
    /\ a_ret.raised # "none"
    /\ a_ret.value # None
    /\ a_ret.value.sources = build_sources(a_retrieved)

\* C18: ask validates that the query is non-empty before anything else: in
\* a call with an empty query the store's search, the LLM and the logger are
\* never invoked.
Inv_C18_EmptyQueryRejectedFirst ==
  (a_pc # "idle" /\ a_query.len = 0) => a_trace = <<>>

\* ------------------------------------------------------------------------
\* Properties of the page's rate limit, checked under SpecApp
\* ------------------------------------------------------------------------
AskRunning == a_pc \notin {"idle"}

\* C19: in a session that is not admin, ask runs only for a submission made
\* while query_count < max_queries with a query of at most max_input_length
\* characters; while the session is not admin query_count never decreases,
\* and once it has reached max_queries can_query is false and no ask runs.
Thm_C19_AskOnlyWithinLimits ==
  /\ []( ~is_admin =>
           /\ AskRunning => (query_count < max_queries /\ a_query.len <= max_input_length)
           /\ query_count >= max_queries =>
                (~can_query(is_admin, query_count) /\ ~AskRunning) )
  /\ [][ ~is_admin' => query_count' >= query_count ]_vars

\* the session used up its queries and a further submission was refused
Wit_C19_LimitReached ==
  /\ ~is_admin
  /\ query_count = max_queries
  /\ ui_out = "Query limit reached"
  /\ llm_calls = max_queries

\* ------------------------------------------------------------------------
\* Properties of RateLimiter, checked under SpecLimiter
\* ------------------------------------------------------------------------
\* C20: grant_admin_access makes the session admin and sets query_count to
\* 0; from then on every call leaves the session admin (reset_session
\* included), can_query returns true and increment_count leaves query_count
\* unchanged.
Thm_C20_AdminIsPermanent ==
  [][ /\ l_call'.op = "grant_admin_access" => (is_admin' /\ query_count' = 0)
      /\ is_admin =>
           /\ is_admin'
           /\ l_call'.op = "can_query" => l_ret' = Some(TRUE)
           /\ l_call'.op = "increment_count" => query_count' = query_count
    ]_vars

\* increment_count was called on an admin session
Wit_C20_AdminIncrement ==
  is_admin /\ l_call.op = "increment_count" /\ query_count = 0

\* C21: in a session that is not admin, the number of LLM API calls made so
\* far never exceeds max_queries, whatever the submissions were and however
\* each call of ask ended.  Checked under SpecApp.
Inv_C21_LlmCallsWithinQuota ==
  ~is_admin => llm_calls <= max_queries

\* C22: a call of add_chunks that fails while encoding leaves the store
\* unchanged: the chunk sequence and the embeddings after the call are those
\* from before it.  Checked under Spec.
Inv_C22_FailedAddLeavesStore ==
  [][ (call = NoCall /\ call'.op = "add_chunks" /\ ret'.raised # "none") =>
        (chunks' = chunks /\ embeddings' = embeddings) ]_vars

====
